---------------------------- MODULE Spec2Model ----------------------------
(***************************************************************************)
(* Model of ColgoStevensonCitySpiderMixin                                  *)
(* (src/city_scrapers/mixins/colgo_stevenson_city.py): the page parser     *)
(* (parse), the title cleaner (_parse_title), the datetime parser          *)
(* (_parse_start / _parse_datetime), the link extractor (_parse_links),    *)
(* the classification (_parse_classification) and the status resolver      *)
(* (_get_status), together with the two inherited CityScrapersSpider       *)
(* methods the mixin calls (super()._get_status and _get_id).              *)
(*                                                                         *)
(* Python str values are TLA+ strings; None is the model value NoneVal.    *)
(* An exception is a record [exc |-> "<ExceptionName>"].                   *)
(***************************************************************************)
EXTENDS Integers, Sequences, FiniteSets, TLC

VARIABLES
    config,     \* the spider subclass's static configuration (name, board_id, ...)
    now,        \* the value datetime.now() returns during the run
    pc,         \* where the engine / the parse generator stands
    pending,    \* the scheduled request not yet fetched (NoneVal when there is none)
    response,   \* the response parse is working on (NoneVal when there is none)
    idx,        \* number of rows of response.rows the generator has consumed
    meeting,    \* parse's local variable `meeting` (the record being built)
    out,        \* what the current parse call has yielded so far, in order
    warned,     \* whether the current parse call logged "No meetings found"
    exc,        \* the exception that left the current parse call (NoneVal when none)
    fetched,    \* number of responses fetched so far
    call        \* a direct application of one method: its arguments and its result

vars == <<config, now, pc, pending, response, idx, meeting, out, warned, exc, fetched, call>>

NoneVal == "None"

(***************************************************************************)
(* Python str operations                                                   *)
(***************************************************************************)
CharAt(s, i) == SubSeq(s, i, i)

Upper == "ABCDEFGHIJKLMNOPQRSTUVWXYZ"

Lowercase == "abcdefghijklmnopqrstuvwxyz"

UpperSet == {CharAt(Upper, i) : i \in 1..Len(Upper)}

LowerSet == {CharAt(Lowercase, i) : i \in 1..Len(Lowercase)}

\* [A-Za-z]
Alpha == UpperSet \cup LowerSet

\* \d
Digit == {"0", "1", "2", "3", "4", "5", "6", "7", "8", "9"}

\* \s, and the characters str.strip() removes
Space == {" ", "\t", "\n", "\r", "\f"}

LowerChar(c) ==
    IF c \in UpperSet
    THEN CharAt(Lowercase, CHOOSE i \in 1..Len(Upper) : CharAt(Upper, i) = c)
    ELSE c

RECURSIVE lower(_)
\* str.lower()
lower(s) ==
    IF Len(s) = 0 THEN "" ELSE LowerChar(CharAt(s, 1)) \o lower(SubSeq(s, 2, Len(s)))

RECURSIVE lstrip(_)
lstrip(s) ==
    IF Len(s) > 0 /\ CharAt(s, 1) \in Space THEN lstrip(SubSeq(s, 2, Len(s))) ELSE s

RECURSIVE rstrip(_)
rstrip(s) ==
    IF Len(s) > 0 /\ CharAt(s, Len(s)) \in Space
    THEN rstrip(SubSeq(s, 1, Len(s) - 1))
    ELSE s

\* str.strip()
strip(s) == rstrip(lstrip(s))

\* s[pos:].startswith(w), pos counting the characters before the place
StartsWithAt(s, pos, w) ==
    /\ pos + Len(w) <= Len(s)
    /\ SubSeq(s, pos + 1, pos + Len(w)) = w

\* `w in s`
Contains(s, w) == \E p \in 0..Len(s) : StartsWithAt(s, p, w)

\* Python truthiness of an Optional[str]
Truthy(v) == v /= NoneVal /\ v /= ""

(***************************************************************************)
(* re: the anchored patterns of _parse_title.  A pattern is a sequence of  *)
(* items; an item is a greedy repetition of a character class, or an       *)
(* alternation of literal words tried in order.  Matching backtracks as    *)
(* Python's re does: a repetition tries its longest run first.             *)
(***************************************************************************)
Rep(cls, lo, hi) == [kind |-> "rep", cls |-> cls, lo |-> lo, hi |-> hi]

\* hi = -1: no upper limit
Plus(cls) == Rep(cls, 1, -1)

Star(cls) == Rep(cls, 0, -1)

Opt(cls) == Rep(cls, 0, 1)

One(cls) == Rep(cls, 1, 1)

Alt(words) == [kind |-> "alt", words |-> words]

RECURSIVE RunLength(_, _, _, _)
\* how many characters of cls follow pos, at most hi of them
RunLength(s, pos, cls, hi) ==
    IF hi /= 0 /\ pos < Len(s) /\ CharAt(s, pos + 1) \in cls
    THEN 1 + RunLength(s, pos + 1, cls, IF hi = -1 THEN -1 ELSE hi - 1)
    ELSE 0

RECURSIVE MatchFrom(_, _, _, _), TryCounts(_, _, _, _, _), TryWords(_, _, _, _, _)
\* the end of the match of pat[k..] at pos, or -1 when there is none
MatchFrom(pat, k, s, pos) ==
    IF k > Len(pat) THEN pos
    ELSE IF pat[k].kind = "alt" THEN TryWords(pat, k, s, pos, 1)
    ELSE TryCounts(pat, k, s, pos, RunLength(s, pos, pat[k].cls, pat[k].hi))

TryCounts(pat, k, s, pos, n) ==
    IF n < pat[k].lo THEN -1
    ELSE LET r == MatchFrom(pat, k + 1, s, pos + n)
         IN  IF r /= -1 THEN r ELSE TryCounts(pat, k, s, pos, n - 1)

TryWords(pat, k, s, pos, a) ==
    IF a > Len(pat[k].words) THEN -1
    ELSE LET w == pat[k].words[a]
             r == IF StartsWithAt(s, pos, w)
                  THEN MatchFrom(pat, k + 1, s, pos + Len(w))
                  ELSE -1
         IN  IF r /= -1 THEN r ELSE TryWords(pat, k, s, pos, a + 1)

\* re.sub(pattern, "", s) for a pattern that starts with ^ : only a match at
\* the start of s is replaced
re_sub(pat, s) ==
    LET e == MatchFrom(pat, 1, s, 0)
    IN  IF e = -1 THEN s ELSE SubSeq(s, e + 1, Len(s))

(***************************************************************************)
(* _parse_title                                                            *)
(***************************************************************************)
Weekdays == <<"Monday", "Tuesday", "Wednesday", "Thursday", "Friday", "Saturday", "Sunday">>

Ordinals == <<"st", "nd", "rd", "th">>

\* Month DD, the common head: [A-Za-z]+\s+\d{1,2}
MonthDay == <<Plus(Alpha), Plus(Space), Rep(Digit, 1, 2)>>

date_patterns ==
    << \* 1: ^(?:Monday|...|Sunday),?\s+[A-Za-z]+\s+\d{1,2}\s*-\s*
       <<Alt(Weekdays), Opt({","}), Plus(Space)>> \o MonthDay
           \o <<Star(Space), One({"-"}), Star(Space)>>,
       \* 2: ^[A-Za-z]+\s+\d{1,2}\s*&\s*\d{1,2}\s+
       MonthDay \o <<Star(Space), One({"&"}), Star(Space), Rep(Digit, 1, 2), Plus(Space)>>,
       \* 3: ^[A-Za-z]+\s+\d{1,2}\s*-\s*\d{1,2},?\s+\d{4}\s+
       MonthDay \o <<Star(Space), One({"-"}), Star(Space), Rep(Digit, 1, 2), Opt({","}),
                     Plus(Space), Rep(Digit, 4, 4), Plus(Space)>>,
       \* 4: ^[A-Za-z]+\s+\d{1,2}(?:st|nd|rd|th)\s+
       MonthDay \o <<Alt(Ordinals), Plus(Space)>>,
       \* 5: ^[A-Za-z]+\s+\d{1,2}(?:st|nd|rd|th),?\s+\d{4}\s+
       MonthDay \o <<Alt(Ordinals), Opt({","}), Plus(Space), Rep(Digit, 4, 4), Plus(Space)>>,
       \* 6: ^[A-Za-z]+\s+\d{1,2},\s+\d{4}\s*-?\s*
       MonthDay \o <<One({","}), Plus(Space), Rep(Digit, 4, 4), Star(Space), Opt({"-"}),
                     Star(Space)>>,
       \* 7: ^[A-Za-z]+\s+\d{1,2}\s*-\s*
       MonthDay \o <<Star(Space), One({"-"}), Star(Space)>>,
       \* 8: ^[A-Za-z]+\s+\d{4}\s+
       <<Plus(Alpha), Plus(Space), Rep(Digit, 4, 4), Plus(Space)>> >>

RECURSIVE ApplyPatterns(_, _)
\* for pattern in date_patterns[k:]: title = re.sub(pattern, "", title)
ApplyPatterns(title, k) ==
    IF k > Len(date_patterns) THEN title
    ELSE ApplyPatterns(re_sub(date_patterns[k], title), k + 1)

\* the cleaning of the text the title selector returned (None when no node matched)
CleanTitle(raw) ==
    strip(ApplyPatterns(IF Truthy(raw) THEN strip(raw) ELSE "", 1))

\* rows are records; row.title is what the title selector's .get() returns
_parse_title(item) == CleanTitle(item.title)


(***************************************************************************)
(* datetime: a datetime is a record of its wall-clock fields and tz, the   *)
(* written UTC offset ("" for a naive datetime); None is NoneDt.           *)
(***************************************************************************)
NoneDt == [none |-> TRUE]

Digits == "0123456789"

DigitChar(d) == CharAt(Digits, d + 1)

DigitVal(c) == (CHOOSE i \in 1..Len(Digits) : CharAt(Digits, i) = c) - 1

IsDigits(s) == \A i \in 1..Len(s) : CharAt(s, i) \in Digit

RECURSIVE ToInt(_)
\* int(s) for a string of decimal digits
ToInt(s) ==
    IF Len(s) = 0 THEN 0
    ELSE 10 * ToInt(SubSeq(s, 1, Len(s) - 1)) + DigitVal(CharAt(s, Len(s)))

\* "%02d" % n and "%04d" % n
Pad2(n) == DigitChar((n \div 10) % 10) \o DigitChar(n % 10)

Pad4(n) == Pad2(n \div 100) \o Pad2(n % 100)

IsLeap(y) == (y % 4 = 0) /\ ((y % 100 /= 0) \/ (y % 400 = 0))

DaysInMonth(y, m) ==
    IF m = 2 THEN (IF IsLeap(y) THEN 29 ELSE 28)
    ELSE IF m \in {4, 6, 9, 11} THEN 30 ELSE 31

\* the range checks of the datetime constructor
ValidFields(y, m, d, h, mi, sec) ==
    /\ y \in 1..9999
    /\ m \in 1..12
    /\ d \in 1..DaysInMonth(y, m)
    /\ h \in 0..23
    /\ mi \in 0..59
    /\ sec \in 0..59

\* a < b for two naive datetimes
DtLess(a, b) ==
    LET ka == <<a.year, a.month, a.day, a.hour, a.minute, a.second>>
        kb == <<b.year, b.month, b.day, b.hour, b.minute, b.second>>
    IN  \E i \in 1..6 : ka[i] < kb[i] /\ \A j \in 1..(i - 1) : ka[j] = kb[j]

RECURSIVE replace_Z(_)
\* s.replace("Z", "+00:00")
replace_Z(s) ==
    IF Len(s) = 0 THEN ""
    ELSE (IF CharAt(s, 1) = "Z" THEN "+00:00" ELSE CharAt(s, 1))
             \o replace_Z(SubSeq(s, 2, Len(s)))

\* the place of the first "+" or "-" of tstr, 0 when there is none
TzPos(tstr) ==
    IF \E i \in 1..Len(tstr) : CharAt(tstr, i) \in {"+", "-"}
    THEN CHOOSE i \in 1..Len(tstr) :
             /\ CharAt(tstr, i) \in {"+", "-"}
             /\ \A j \in 1..(i - 1) : CharAt(tstr, j) \notin {"+", "-"}
    ELSE 0

\* HH[:MM[:SS]]
TimeShape(t) ==
    /\ Len(t) \in {2, 5, 8}
    /\ \A i \in 1..Len(t) : IF i \in {3, 6} THEN CharAt(t, i) = ":" ELSE CharAt(t, i) \in Digit

\* datetime.fromisoformat(s) for YYYY-MM-DD[*HH[:MM[:SS]][+HH:MM]], the shapes every
\* supported interpreter reads alike (no fractional seconds, no basic or week format):
\* the datetime, with its offset kept in tz, or ValueError
fromisoformat(s) ==
    LET bad   == [exc |-> "ValueError"]
        dateOk == /\ Len(s) >= 10
                  /\ \A i \in 1..10 :
                         IF i \in {5, 8} THEN CharAt(s, i) = "-" ELSE CharAt(s, i) \in Digit
        tstr  == SubSeq(s, 12, Len(s))
        tz    == TzPos(tstr)
        tm    == IF tz = 0 THEN tstr ELSE SubSeq(tstr, 1, tz - 1)
        off   == IF tz = 0 THEN "" ELSE SubSeq(tstr, tz, Len(tstr))
        offOk == \/ tz = 0
                 \/ /\ Len(off) = 6
                    /\ IsDigits(SubSeq(off, 2, 3))
                    /\ CharAt(off, 4) = ":"
                    /\ IsDigits(SubSeq(off, 5, 6))
                    /\ ToInt(SubSeq(off, 2, 3)) \in 0..23
                    /\ ToInt(SubSeq(off, 5, 6)) \in 0..59
        y     == ToInt(SubSeq(s, 1, 4))
        m     == ToInt(SubSeq(s, 6, 7))
        d     == ToInt(SubSeq(s, 9, 10))
        h     == ToInt(SubSeq(tm, 1, 2))
        mi    == IF Len(tm) >= 5 THEN ToInt(SubSeq(tm, 4, 5)) ELSE 0
        sec   == IF Len(tm) >= 8 THEN ToInt(SubSeq(tm, 7, 8)) ELSE 0
    IN  IF ~dateOk THEN bad
        ELSE IF Len(s) = 10 THEN
            (IF ValidFields(y, m, d, 0, 0, 0)
             THEN [year |-> y, month |-> m, day |-> d, hour |-> 0, minute |-> 0,
                   second |-> 0, tz |-> ""]
             ELSE bad)
        ELSE IF ~TimeShape(tm) \/ ~offOk THEN bad
        ELSE IF ~ValidFields(y, m, d, h, mi, sec) THEN bad
        ELSE [year |-> y, month |-> m, day |-> d, hour |-> h, minute |-> mi,
              second |-> sec, tz |-> off]

\* a variant that applies the offset instead of dropping it:
\* dt.astimezone(timezone.utc).replace(tzinfo=None), within the day
replace_tzinfo_None_shifted(dt) ==
    LET sign == IF dt.tz /= "" /\ CharAt(dt.tz, 1) = "-" THEN 1 ELSE -1
        hh == IF dt.tz = "" THEN 0 ELSE ToInt(SubSeq(dt.tz, 2, 3))
    IN  [dt EXCEPT !.tz = "", !.hour = (dt.hour + sign * hh) % 24]

\* dt.replace(tzinfo=None): the fields stay, the offset goes
replace_tzinfo_None(dt) == [dt EXCEPT !.tz = ""]

\* _parse_datetime(date_str): a naive datetime, NoneDt, or the exception that
\* leaves the method (only ValueError is caught)
_parse_datetime(date_str) ==
    LET s == strip(date_str)
    IN  IF Contains(s, "T")
        THEN LET dt == fromisoformat(replace_Z(s))
             IN  IF "exc" \in DOMAIN dt
                 THEN (IF dt.exc = "ValueError" THEN NoneDt ELSE dt)
                 ELSE replace_tzinfo_None(dt)
        ELSE NoneDt

\* row.date is the content attribute of span[property='dc:date'] (None when absent)
_parse_start(item) ==
    IF Truthy(item.date) THEN _parse_datetime(strip(item.date)) ELSE NoneDt

(***************************************************************************)
(* _parse_classification                                                   *)
(***************************************************************************)
CITY_COUNCIL == "City Council"

COMMISSION == "Commission"

NOT_CLASSIFIED == "Not classified"

\* a variant with the two boards exchanged
_parse_classification_swapped(board_id) ==
    IF board_id = 27 THEN COMMISSION
    ELSE IF board_id = 28 THEN CITY_COUNCIL
    ELSE NOT_CLASSIFIED

_parse_classification(board_id) ==
    IF board_id = 27 THEN CITY_COUNCIL
    ELSE IF board_id = 28 THEN COMMISSION
    ELSE NOT_CLASSIFIED

(***************************************************************************)
(* _parse_links, _parse_source                                             *)
(***************************************************************************)
HasScheme(url) == StartsWithAt(url, 0, "https://") \/ StartsWithAt(url, 0, "http://")

\* the length of scheme://host of an absolute URL
OriginLen(url) ==
    LET from == IF StartsWithAt(url, 0, "https://") THEN 9 ELSE 8
    IN  IF \E i \in from..Len(url) : CharAt(url, i) = "/"
        THEN (CHOOSE i \in from..Len(url) :
                  /\ CharAt(url, i) = "/"
                  /\ \A j \in from..(i - 1) : CharAt(url, j) /= "/") - 1
        ELSE Len(url)

\* the URL up to its query
BeforeQuery(url) ==
    IF \E i \in 1..Len(url) : CharAt(url, i) = "?"
    THEN SubSeq(url, 1, (CHOOSE i \in 1..Len(url) :
                             /\ CharAt(url, i) = "?"
                             /\ \A j \in 1..(i - 1) : CharAt(url, j) /= "?") - 1)
    ELSE url

\* response.urljoin(href) for an absolute href, a path from the root, or a query
urljoin(base, href) ==
    IF href = "" THEN base
    ELSE IF HasScheme(href) THEN href
    ELSE IF CharAt(href, 1) = "/" THEN SubSeq(base, 1, OriginLen(base)) \o href
    ELSE BeforeQuery(base) \o href

headers == <<"Agenda", "Agenda Packet", "Minutes", "Video">>

Min(a, b) == IF a < b THEN a ELSE b

RECURSIVE LinksFrom(_, _, _)
\* the loop over zip(headers, cells[2:]) from its k-th pair on; a cell is the
\* href of its first anchor (None when it has none)
LinksFrom(cells, base, k) ==
    IF k > Min(Len(headers), Len(cells) - 2) THEN <<>>
    ELSE LET href == cells[k + 2]
         IN  (IF Truthy(href)
              THEN <<[href |-> urljoin(base, href), title |-> headers[k]]>>
              ELSE <<>>) \o LinksFrom(cells, base, k + 1)

\* a variant that pairs the headers with cells instead of cells[2:]
_parse_links_unsliced(item, resp) ==
    LinksFrom(<<NoneVal, NoneVal>> \o item.cells, resp.url, 1)

_parse_links(item, resp) == LinksFrom(item.cells, resp.url, 1)

\* a variant that reports the listing's address instead of the page's
_parse_source_base(resp) == "https://www.ci.stevenson.wa.us/meetings"

_parse_source(resp) == resp.url

(***************************************************************************)
(* _get_status, and the inherited CityScrapersSpider._get_status it falls  *)
(* back to.  The result is [status |-> s] or [exc |-> name].               *)
(***************************************************************************)
CANCELLED == "cancelled"

PASSED == "passed"

TENTATIVE == "tentative"

\* CityScrapersSpider._get_status(item, text): item["start"] < datetime.now()
\* raises TypeError when start is None
super_get_status(m, text, clock) ==
    LET meeting_text == lower(m.title \o " " \o m.description \o " " \o text)
    IN  IF \E word \in {"cancel", "rescheduled", "postpone"} : Contains(meeting_text, word)
        THEN [status |-> CANCELLED]
        ELSE IF m.start = NoneDt THEN [exc |-> "TypeError"]
        ELSE IF DtLess(m.start, clock) THEN [status |-> PASSED]
        ELSE [status |-> TENTATIVE]

\* a variant that tests "rescheduled" before "cancelled"
_get_status_rescheduled_first(m, text, clock) ==
    LET combined_text == lower(m.title \o " " \o text)
    IN  IF /\ Contains(combined_text, "rescheduled")
           /\ m.start /= NoneDt
           /\ DtLess(m.start, clock)
        THEN [status |-> PASSED]
        ELSE IF Contains(combined_text, "cancelled") THEN [status |-> CANCELLED]
        ELSE super_get_status(m, text, clock)

\* a variant without the `and meeting["start"]` guard: None < datetime.now()
_get_status_unguarded(m, text, clock) ==
    LET combined_text == lower(m.title \o " " \o text)
    IN  IF Contains(combined_text, "cancelled") THEN [status |-> CANCELLED]
        ELSE IF Contains(combined_text, "rescheduled")
        THEN (IF m.start = NoneDt THEN [exc |-> "TypeError"]
              ELSE IF DtLess(m.start, clock) THEN [status |-> PASSED]
              ELSE super_get_status(m, text, clock))
        ELSE super_get_status(m, text, clock)

_get_status(m, text, clock) ==
    LET combined_text == lower(m.title \o " " \o text)
    IN  IF Contains(combined_text, "cancelled") THEN [status |-> CANCELLED]
        ELSE IF /\ Contains(combined_text, "rescheduled")
                /\ m.start /= NoneDt
                /\ DtLess(m.start, clock)
        THEN [status |-> PASSED]
        ELSE super_get_status(m, text, clock)

(***************************************************************************)
(* The inherited CityScrapersSpider._get_id: name/YYYYmmddHHMM/x/title,    *)
(* item["start"].strftime raising AttributeError when start is None.       *)
(***************************************************************************)
AlnumCaret == Alpha \cup Digit \cup {"^"}

RECURSIVE Underscored(_, _)
\* the title with every run of other characters turned into one "_", none at the ends
Underscored(s, gap) ==
    IF Len(s) = 0 THEN ""
    ELSE LET c == CharAt(s, 1)
             rest == SubSeq(s, 2, Len(s))
         IN  IF c \in AlnumCaret
             THEN (IF gap THEN "_" ELSE "") \o LowerChar(c) \o Underscored(rest, FALSE)
             ELSE Underscored(rest, TRUE)

UnderscoreTitle(title) ==
    LET body == Underscored(title, FALSE)
    IN  IF Len(body) > 0 /\ CharAt(body, 1) = "_" THEN SubSeq(body, 2, Len(body)) ELSE body

_get_id(m, name) ==
    IF m.start = NoneDt THEN [exc |-> "AttributeError"]
    ELSE [id |-> name \o "/" \o Pad4(m.start.year) \o Pad2(m.start.month)
                     \o Pad2(m.start.day) \o Pad2(m.start.hour) \o Pad2(m.start.minute)
                     \o "/x/" \o UnderscoreTitle(m.title)]

(***************************************************************************)
(* The spider: its configuration, start_requests, and parse run by the     *)
(* engine one generator step at a time.                                    *)
(***************************************************************************)
base_url == "https://www.ci.stevenson.wa.us/meetings"

default_board_id == 27

\* the static variables the metaclass requires of a spider, and board_id
SpiderConfig(name, board_name, board_id) ==
    [name |-> name, agency |-> "City of Stevenson", board_name |-> board_name,
     board_id |-> board_id,
     description |-> "Meetings of the " \o board_name,
     location |-> [name |-> "Stevenson City Hall Council Chambers",
                   address |-> "7121 East Loop Road, Stevenson, WA 98648"]]

Configs ==
    { SpiderConfig("colgo_stevenson_city", "City Council", default_board_id),
      SpiderConfig("colgo_stevenson_planning", "Planning Commission", 28),
      SpiderConfig("colgo_stevenson_fire", "Fire Board", 29),
      SpiderConfig("colgo_stevenson_other", "Board of Adjustment", 0) }

Datetime(y, m, d, h, mi, sec) ==
    [year |-> y, month |-> m, day |-> d, hour |-> h, minute |-> mi, second |-> sec,
     tz |-> ""]

\* the moment the tests freeze the clock at
FrozenNow == Datetime(2024, 12, 18, 0, 0, 0)

\* the moments a status may be asked for at
Clocks == {FrozenNow, Datetime(2026, 1, 15, 18, 0, 0)}

\* the first day of the month after d's
NextMonth(d) ==
    IF d.month < 12 THEN [d EXCEPT !.month = d.month + 1, !.day = 1]
    ELSE [d EXCEPT !.year = d.year + 1, !.month = 1, !.day = 1]

RECURSIVE PlusDays(_, _)
\* d + timedelta(days=n), a month at a time
PlusDays(d, n) ==
    LET left == DaysInMonth(d.year, d.month) - d.day
    IN  IF n <= left THEN [d EXCEPT !.day = d.day + n]
        ELSE PlusDays(NextMonth(d), n - left - 1)

RECURSIVE IntStr(_)
\* str(n) for n >= 0
IntStr(n) == IF n < 10 THEN DigitChar(n) ELSE IntStr(n \div 10) \o DigitChar(n % 10)

\* the URL start_requests asks for: urlencode of the two date filters and the board
StartUrl(cfg, clock) ==
    LET end_date == PlusDays(clock, 365 * 2)
    IN  base_url \o "/?"
        \o "date_filter%5Bvalue%5D%5Bmonth%5D=1"
        \o "&date_filter%5Bvalue%5D%5Bday%5D=1"
        \o "&date_filter%5Bvalue%5D%5Byear%5D=2018"
        \o "&date_filter_1%5Bvalue%5D%5Bmonth%5D=" \o IntStr(end_date.month)
        \o "&date_filter_1%5Bvalue%5D%5Bday%5D=" \o IntStr(end_date.day)
        \o "&date_filter_1%5Bvalue%5D%5Byear%5D=" \o IntStr(end_date.year)
        \o "&field_microsite_tid=All"
        \o "&field_microsite_tid_1=" \o IntStr(cfg.board_id)

NoMeeting == [none |-> TRUE]

NoResponse == [none |-> TRUE]

NoCall == [fn |-> "none"]

(***************************************************************************)
(* The documents the site may answer with.  A row (tr.even / tr.odd) is    *)
(* what the selectors of the mixin read of it: title, the first text node  *)
(* the title selector finds; date, the content attribute of the dc:date    *)
(* span; cells, per td the href of its first anchor.                       *)
(***************************************************************************)
MaxRows == 2

MaxPages == 2

Row(title, date, cells) == [title |-> title, date |-> date, cells |-> cells]

AgendaHref == "/sites/default/files/agenda.pdf"

VideoHref == "https://www.youtube.com/watch?v=abc"

FullCells == <<NoneVal, NoneVal, AgendaHref, NoneVal, "/minutes.pdf", VideoHref>>

RowKinds ==
    { Row("Wednesday, February 5- Budget Workshop", "2025-02-05T18:00:00-08:00", FullCells),
      Row("January 15, 2024 - Council Meeting CANCELLED", " 2024-01-15T18:00:00Z ", <<>>),
      Row("Rescheduled Council Meeting", "2024-06-20T18:00:00-07:00",
          FullCells \o <<"/extra.pdf">>),
      Row(NoneVal, "2026-03-19T18:00:00-07:00", <<NoneVal, NoneVal, "">>),
      Row("Council Retreat", NoneVal, FullCells),
      Row("Meeting Cancelled", "03/19/2026 - 6:00pm", <<NoneVal>>) }

RECURSIVE RowSeqs(_)
\* the sequences of at most n rows
RowSeqs(n) ==
    IF n = 0 THEN {<<>>}
    ELSE LET shorter == RowSeqs(n - 1)
         IN  shorter \cup {Append(rs, r) : rs \in {x \in shorter : Len(x) = n - 1}, r \in RowKinds}

\* the href of the first pager-next anchor (None when there is none)
NextPageHrefs == {NoneVal, "", "?page=1"}

(***************************************************************************)
(* State machine                                                           *)
(***************************************************************************)
Init ==
    /\ config \in Configs
    /\ now \in Clocks
    /\ pc = "init"
    /\ pending = NoneVal
    /\ response = NoResponse
    /\ idx = 0
    /\ meeting = NoMeeting
    /\ out = <<>>
    /\ warned = FALSE
    /\ exc = NoneVal
    /\ fetched = 0
    /\ call = NoCall

\* start_requests: the one initial request
start_requests ==
    /\ pc = "init"
    /\ pending' = StartUrl(config, now)
    /\ pc' = "scheduled"
    /\ UNCHANGED <<config, now, response, idx, meeting, out, warned, exc, fetched, call>>

\* the engine downloads the pending request and hands the response to parse
Fetch ==
    /\ pc = "scheduled"
    /\ fetched < MaxPages
    /\ \E rows \in RowSeqs(MaxRows), next \in NextPageHrefs :
           response' = [url |-> pending, rows |-> rows, next_page |-> next]
    /\ pending' = NoneVal
    /\ fetched' = fetched + 1
    /\ pc' = "parse"
    /\ idx' = 0
    /\ meeting' = NoMeeting
    /\ out' = <<>>
    /\ warned' = FALSE
    /\ exc' = NoneVal
    /\ UNCHANGED <<config, now, call>>

\* Meeting(...) of parse, before status and id are set
NewMeeting(item, resp, cfg) ==
    [title |-> _parse_title(item),
     description |-> cfg.description,
     classification |-> _parse_classification(cfg.board_id),
     start |-> _parse_start(item),
     end |-> NoneDt,
     all_day |-> FALSE,
     time_notes |-> "",
     location |-> cfg.location,
     links |-> _parse_links(item, resp),
     source |-> _parse_source(resp)]

\* what the pagination part of parse yields
Pagination(resp) ==
    IF Truthy(resp.next_page)
    THEN <<[kind |-> "request", url |-> urljoin(resp.url, resp.next_page)]>>
    ELSE <<>>

\* parse on a response without rows: the warning, then the pagination
ParseNoRows ==
    /\ pc = "parse"
    /\ Len(response.rows) = 0
    /\ warned' = TRUE
    /\ out' = out \o Pagination(response)
    /\ pc' = "done"
    /\ UNCHANGED <<config, now, pending, response, idx, meeting, exc, fetched, call>>

\* one turn of the loop over the rows: the record is built, given its status and
\* its id, and yielded; an exception of any of the calls leaves parse
ParseRow ==
    /\ pc = "parse"
    /\ idx < Len(response.rows)
    /\ \E m0 \in {NewMeeting(response.rows[idx + 1], response, config)} :
       \E st \in {_get_status(m0, "", now)} :
           IF "exc" \in DOMAIN st
           THEN /\ meeting' = [kind |-> "meeting"] @@ m0
                /\ exc' = st.exc
                /\ pc' = "failed"
                /\ UNCHANGED <<idx, out>>
           ELSE \E m1 \in {[kind |-> "meeting", status |-> st.status] @@ m0} :
                \E id \in {_get_id(m1, config.name)} :
                    IF "exc" \in DOMAIN id
                    THEN /\ meeting' = m1
                         /\ exc' = id.exc
                         /\ pc' = "failed"
                         /\ UNCHANGED <<idx, out>>
                    ELSE /\ meeting' = [id |-> id.id] @@ m1
                         /\ out' = Append(out, [id |-> id.id] @@ m1)
                         /\ idx' = idx + 1
                         /\ UNCHANGED <<exc, pc>>
    /\ UNCHANGED <<config, now, pending, response, warned, fetched, call>>

\* after the last row: the pagination
ParseEnd ==
    /\ pc = "parse"
    /\ Len(response.rows) > 0
    /\ idx = Len(response.rows)
    /\ out' = out \o Pagination(response)
    /\ pc' = "done"
    /\ UNCHANGED <<config, now, pending, response, idx, meeting, warned, exc, fetched, call>>

\* the engine schedules the request parse yielded
Schedule ==
    /\ pc = "done"
    /\ Len(out) > 0
    /\ out[Len(out)].kind = "request"
    /\ pending' = out[Len(out)].url
    /\ pc' = "scheduled"
    /\ response' = NoResponse
    /\ idx' = 0
    /\ meeting' = NoMeeting
    /\ out' = <<>>
    /\ warned' = FALSE
    /\ UNCHANGED <<config, now, exc, fetched, call>>

Next ==
    \/ start_requests
    \/ Fetch
    \/ ParseNoRows
    \/ ParseRow
    \/ ParseEnd
    \/ Schedule

Spec == Init /\ [][Next]_vars

(***************************************************************************)
(* The methods applied on their own, to arguments drawn from bounded sets: *)
(* call holds the arguments and, once the method has run, its result.      *)
(* The spider itself stays as constructed.                                 *)
(***************************************************************************)
Constructed ==
    /\ config = SpiderConfig("colgo_stevenson_city", "City Council", default_board_id)
    /\ pc = "init"
    /\ pending = NoneVal
    /\ response = NoResponse
    /\ idx = 0
    /\ meeting = NoMeeting
    /\ out = <<>>
    /\ warned = FALSE
    /\ exc = NoneVal
    /\ fetched = 0

SpiderVars == <<config, now, pc, pending, response, idx, meeting, out, warned, exc, fetched>>

\* ---- _parse_title ----
MaxFrags == 3

\* the date prefixes the patterns are written for, and the texts they precede
TitleFrags ==
    { "Wednesday, February 5- ", "Friday March 14 - ", "May 27 & 28 ",
      "October 19-20, 2018 ", "March 5th ", "June 3rd, 2021 ", "January 15, 2026 - ",
      "February 25- ", "January 2026 ", "Budget Workshop", "Council Meeting Cancelled",
      "2024 Retreat", " ", "" }

RECURSIVE Concats(_)
\* the concatenations of n fragments
Concats(n) ==
    IF n = 0 THEN {""} ELSE {a \o b : a \in Concats(n - 1), b \in TitleFrags}

TitleInputs == {NoneVal} \cup Concats(MaxFrags)

InitTitle ==
    /\ Constructed
    /\ now = FrozenNow
    /\ call \in {[fn |-> "_parse_title", raw |-> t, passes |-> 0, first |-> "", result |-> ""] :
                    t \in TitleInputs}

\* _parse_title on a row whose title text is call.raw
CleanOnce ==
    /\ call.passes = 0
    /\ \E t \in {_parse_title(Row(call.raw, NoneVal, <<>>))} :
           call' = [call EXCEPT !.passes = 1, !.first = t, !.result = t]
    /\ UNCHANGED SpiderVars

\* _parse_title on a row whose title text is the first result
CleanAgain ==
    /\ call.passes = 1
    /\ call' = [call EXCEPT !.passes = 2,
                            !.result = _parse_title(Row(call.first, NoneVal, <<>>))]
    /\ UNCHANGED SpiderVars

NextTitle ==
    \/ CleanOnce
    \/ CleanAgain

SpecTitle == InitTitle /\ [][NextTitle]_vars

\* ---- _parse_datetime ----
\* the fields a timestamp is written with, in and out of range
WrittenFields ==
    { Datetime(y, m, d, h, mi, sec) :
          y \in {2024, 2026}, m \in {1, 2, 13}, d \in {0, 15, 29, 31},
          h \in {0, 18, 24}, mi \in {0, 59}, sec \in {0, 60} }

Separators == {"T", " "}

Offsets == {"", "Z", "-08:00", "+05:30", "-8"}

WellFormedOffsets == {"", "Z", "-08:00", "+05:30"}

Paddings == {"", " "}

\* YYYY-MM-DD<sep>HH:MM:SS<off> as the site writes a timestamp
IsoText(f, sep, off) ==
    Pad4(f.year) \o "-" \o Pad2(f.month) \o "-" \o Pad2(f.day) \o sep
        \o Pad2(f.hour) \o ":" \o Pad2(f.minute) \o ":" \o Pad2(f.second) \o off

\* strings that are no timestamp
OtherTexts ==
    {"", "T", "Tuesday", "not-a-date", "2026-01-15", "2026-01-15T", "03/19/2026 - 6:00pm",
     "2026-01-15 18:00:00T", "2026-1-15T18:00:00"}

\* timestamps written without seconds, or without minutes and seconds
ShortTexts == {"2026-01-15T18", "2026-01-15T18:00", "2026-01-15T18:00-08:00"}

DatetimeCalls ==
    { [fn |-> "_parse_datetime", written |-> f, sep |-> sep, off |-> off,
       date_str |-> pad \o IsoText(f, sep, off) \o pad, done |-> FALSE, result |-> NoneDt] :
          f \in WrittenFields, sep \in Separators, off \in Offsets, pad \in Paddings }
    \cup
    { [fn |-> "_parse_datetime", written |-> Datetime(2026, 1, 15, 18, 0, 0), sep |-> "T",
       off |-> "", date_str |-> t, done |-> FALSE, result |-> NoneDt] : t \in ShortTexts }
    \cup
    { [fn |-> "_parse_datetime", written |-> NoneDt, sep |-> "", off |-> "",
       date_str |-> t, done |-> FALSE, result |-> NoneDt] : t \in OtherTexts }

InitDatetime ==
    /\ Constructed
    /\ now = FrozenNow
    /\ call \in DatetimeCalls

ApplyParseDatetime ==
    /\ call.fn = "_parse_datetime"
    /\ ~call.done
    /\ call' = [call EXCEPT !.done = TRUE, !.result = _parse_datetime(call.date_str)]
    /\ UNCHANGED SpiderVars

NextDatetime == ApplyParseDatetime

SpecDatetime == InitDatetime /\ [][NextDatetime]_vars

\* ---- _parse_links ----
MaxCells == 7

HrefKinds == {NoneVal, "", AgendaHref, VideoHref}

RECURSIVE CellSeqs(_)
\* the rows of at most n cells
CellSeqs(n) ==
    IF n = 0 THEN {<<>>}
    ELSE LET shorter == CellSeqs(n - 1)
         IN  shorter \cup {Append(cs, h) : cs \in {x \in shorter : Len(x) = n - 1},
                                           h \in HrefKinds}

PageUrl == base_url \o "/?field_microsite_tid_1=27&page=1"

InitLinks ==
    /\ Constructed
    /\ now = FrozenNow
    /\ call \in {[fn |-> "_parse_links", cells |-> cs, done |-> FALSE, result |-> <<>>] :
                    cs \in CellSeqs(MaxCells)}

ApplyParseLinks ==
    /\ call.fn = "_parse_links"
    /\ ~call.done
    /\ call' = [call EXCEPT !.done = TRUE,
                            !.result = _parse_links(Row(NoneVal, NoneVal, call.cells),
                                                    [url |-> PageUrl])]
    /\ UNCHANGED SpiderVars

NextLinks == ApplyParseLinks

SpecLinks == InitLinks /\ [][NextLinks]_vars

\* ---- _get_status ----
StatusTitles ==
    {"", "Council Meeting", "Meeting Cancelled", "Rescheduled Meeting",
     "CANCELLED: Rescheduled Hearing", "Meeting Canceled", "Postponed Workshop"}

StatusTexts == {"", "Cancelled due to weather", "rescheduled to Friday", "see agenda"}

StatusStarts ==
    {NoneDt, Datetime(2024, 6, 20, 18, 0, 0), FrozenNow, Datetime(2026, 1, 15, 18, 0, 0),
     Datetime(2027, 6, 17, 18, 0, 0)}

InitStatus ==
    /\ Constructed
    /\ now \in Clocks
    /\ call \in {[fn |-> "_get_status",
                  meeting |-> [title |-> t, description |-> config.description, start |-> st],
                  text |-> x, done |-> FALSE, result |-> [status |-> ""]] :
                    t \in StatusTitles, x \in StatusTexts, st \in StatusStarts}

ApplyGetStatus ==
    /\ call.fn = "_get_status"
    /\ ~call.done
    /\ call' = [call EXCEPT !.done = TRUE,
                            !.result = _get_status(call.meeting, call.text, now)]
    /\ UNCHANGED SpiderVars

NextStatus == ApplyGetStatus

SpecStatus == InitStatus /\ [][NextStatus]_vars

(***************************************************************************)
(* Properties                                                              *)
(***************************************************************************)
IsMeeting(x) == x.kind = "meeting"

IsRequest(x) == x.kind = "request"

Meetings == SelectSeq(out, IsMeeting)

Requests == SelectSeq(out, IsRequest)

\* the parse call has ended, by returning or by an exception
ParseOver == pc \in {"done", "failed"}

\* the record parse builds of a row shows the row's title, start and links
BuiltFrom(m, item) ==
    /\ m.title = CleanTitle(item.title)
    /\ m.start = _parse_start(item)
    /\ m.links = LinksFrom(item.cells, response.url, 1)

\* C1: when parse has ended, it has yielded as many meeting records as the page has
\* rows, and the i-th record is the one built from the i-th row.
C1_RecordPerRowInOrder ==
    ParseOver =>
        /\ Len(Meetings) = Len(response.rows)
        /\ \A i \in 1..Len(Meetings) : BuiltFrom(Meetings[i], response.rows[i])

\* C2: no exception raised while a row's record is built leaves parse: parse never
\* ends by an exception, whatever the rows lack.
C2_NoExceptionEscapes == pc /= "failed" /\ exc = NoneVal

\* C3: when parse has ended, it has yielded exactly one request if the page has a
\* next-page link and none otherwise, after all the records; a page without rows
\* yields no record, logs the warning, and is paginated like any other.
C3_PaginationAlwaysEvaluated ==
    ParseOver =>
        /\ Len(Requests) = (IF Truthy(response.next_page) THEN 1 ELSE 0)
        /\ \A i \in 1..Len(out) : IsRequest(out[i]) => i = Len(out)
        /\ Len(response.rows) = 0 => (warned /\ Len(Meetings) = 0)

\* C9: every record carries the classification the board identifier alone decides:
\* CITY_COUNCIL for 27, COMMISSION for 28, NOT_CLASSIFIED for any other value.
C9_ClassificationByBoard ==
    \A i \in 1..Len(Meetings) :
        /\ Meetings[i].classification \in {CITY_COUNCIL, COMMISSION, NOT_CLASSIFIED}
        /\ (config.board_id = 27) => (Meetings[i].classification = CITY_COUNCIL)
        /\ (config.board_id = 28) => (Meetings[i].classification = COMMISSION)
        /\ (config.board_id \notin {27, 28}) => (Meetings[i].classification = NOT_CLASSIFIED)

\* two records of different rows yielded by a spider of another board than 27 and 28
C9_Witness ==
    /\ config.board_id \notin {27, 28}
    /\ Len(Meetings) = 2
    /\ Meetings[1].title /= Meetings[2].title
    /\ Meetings[1].classification = NOT_CLASSIFIED

\* C10: every record parse yields has end = None, all_day = False, time_notes = "",
\* source = the URL of the response it was read from, and the spider's description
\* and location.
C10_FixedFields ==
    \A i \in 1..Len(Meetings) :
        /\ Meetings[i].end = NoneDt
        /\ Meetings[i].all_day = FALSE
        /\ Meetings[i].time_notes = ""
        /\ Meetings[i].source = response.url
        /\ Meetings[i].description = config.description
        /\ Meetings[i].location = config.location

\* a record read from the second page, whose URL is not the one start_requests built
C10_Witness ==
    /\ fetched = 2
    /\ Len(Meetings) >= 1
    /\ Meetings[1].source /= StartUrl(config, now)
    /\ Meetings[1].source = response.url
    /\ Meetings[1].links /= <<>>

\* the lower-cased title and notes, as _get_status reads them
CallText == lower(call.meeting.title \o " " \o call.text)

\* C4: whenever the lower-cased title + notes contain "cancelled", _get_status
\* returns CANCELLED, whatever start is and whether or not "rescheduled" is there too.
C4_CancelledWins ==
    (call.done /\ Contains(CallText, "cancelled")) => call.result = [status |-> CANCELLED]

\* a past meeting whose title says both cancelled and rescheduled
C4_Witness ==
    /\ call.done
    /\ Contains(CallText, "cancelled")
    /\ Contains(CallText, "rescheduled")
    /\ call.meeting.start /= NoneDt
    /\ DtLess(call.meeting.start, now)
    /\ call.result = [status |-> CANCELLED]

\* the condition of the override: "rescheduled", a start, and the start before now
RescheduledPast ==
    /\ Contains(CallText, "rescheduled")
    /\ call.meeting.start /= NoneDt
    /\ DtLess(call.meeting.start, now)

\* C5: without "cancelled" in the text, _get_status returns PASSED when the text
\* contains "rescheduled" and start is set and before now, and in every other case
\* (a None start included) exactly what the inherited rule gives for the same
\* record and notes.
C5_OverrideElseInherited ==
    (call.done /\ ~Contains(CallText, "cancelled")) =>
        IF RescheduledPast
        THEN call.result = [status |-> PASSED]
        ELSE call.result = super_get_status(call.meeting, call.text, now)

\* a rescheduled meeting of the past, returned as passed where the inherited rule
\* says cancelled
C5_Witness ==
    /\ call.done
    /\ ~Contains(CallText, "cancelled")
    /\ RescheduledPast
    /\ call.result = [status |-> PASSED]
    /\ super_get_status(call.meeting, call.text, now) = [status |-> CANCELLED]

\* the place of a label among the headers
HeaderIndex(title) == CHOOSE k \in 1..Len(headers) : headers[k] = title

\* C6: the cell at position 2 + k (k = 1..4) is paired with the k-th label; a link
\* with that label is there exactly when that cell exists and holds a non-empty
\* href, it carries that href resolved against the page, the links are in column
\* order, there are at most four, and none has an empty href.
C6_LinksByColumn ==
    call.done =>
        /\ Len(call.result) <= 4
        /\ \A k \in 1..Len(headers) :
               (\E i \in 1..Len(call.result) : call.result[i].title = headers[k])
                   <=> (k + 2 <= Len(call.cells) /\ Truthy(call.cells[k + 2]))
        /\ \A i \in 1..Len(call.result) :
               /\ call.result[i].title \in {headers[k] : k \in 1..Len(headers)}
               /\ call.result[i].href
                      = urljoin(PageUrl, call.cells[HeaderIndex(call.result[i].title) + 2])
               /\ Truthy(call.result[i].href)
        /\ \A i, j \in 1..Len(call.result) :
               i < j => HeaderIndex(call.result[i].title) < HeaderIndex(call.result[j].title)

\* a row of seven cells, anchors in the first two and in the seventh, none in the
\* fourth: the links are Agenda and Minutes
C6_Witness ==
    /\ call.done
    /\ Len(call.cells) = 7
    /\ Truthy(call.cells[1])
    /\ Truthy(call.cells[2])
    /\ Truthy(call.cells[3])
    /\ call.cells[4] = NoneVal
    /\ Truthy(call.cells[5])
    /\ call.cells[6] = ""
    /\ Truthy(call.cells[7])
    /\ Len(call.result) = 2
    /\ call.result[2].title = "Minutes"

\* C7: cleaning a cleaned title changes nothing.
C7_CleanerIdempotent == call.passes = 2 => call.result = call.first

\* the written timestamp is read by every interpreter: fields in range, "T" between
\* date and time, an offset of the form +HH:MM, Z or none
WellFormed ==
    /\ call.written /= NoneDt
    /\ ValidFields(call.written.year, call.written.month, call.written.day,
                   call.written.hour, call.written.minute, call.written.second)
    /\ call.sep = "T"
    /\ call.off \in WellFormedOffsets

\* C8: _parse_datetime returns None or the naive datetime whose fields are the ones
\* written in the string, the offset dropped; for a string that is malformed or has
\* no "T" it returns None; and no exception leaves it.
C8_WallClockOrNone ==
    call.done =>
        /\ "exc" \notin DOMAIN call.result
        /\ call.result = NoneDt \/ call.result = call.written
        /\ ~WellFormed => call.result = NoneDt

\* 18:00 written with the offset -08:00 is read as 18:00
C8_Witness ==
    /\ call.done
    /\ call.off = "-08:00"
    /\ call.written.hour = 18
    /\ call.result = call.written
    /\ call.result.tz = ""

=============================================================================
